---- MODULE Spec2Model ----
(***************************************************************************)
(* Pull policy, pull ledger (~/.pack/image.json) and Fetcher.Fetch of      *)
(* pkg/image.                                                              *)
(*                                                                         *)
(* Strings that the code inspects character by character (interval specs,  *)
(* policy texts) are tuples of one-character strings.  An RFC3339          *)
(* timestamp string is represented by the whole number of seconds it       *)
(* denotes; the clock itself runs in ticks, TicksPerSec ticks a second,    *)
(* so formatting a time drops its sub-second part as time.Format does.     *)
(***************************************************************************)
EXTENDS Integers, Sequences, FiniteSets, TLC

\* ------------------------------------------------------------------ bounds
TicksPerSec == 2
MaxClockSteps == 1
MaxCalls == 2
MaxParses == 1

TicksPerMin == 60 * TicksPerSec
TicksPerHour == 60 * TicksPerMin
TicksPerDay == 24 * TicksPerHour

\* ------------------------------------------------------ character helpers
Digits == <<"0", "1", "2", "3", "4", "5", "6", "7", "8", "9">>

IsDigit(c) == \E i \in 1..10 : Digits[i] = c

DigitVal(c) == (CHOOSE i \in 1..10 : Digits[i] = c) - 1

AllDigits(s) == \A i \in 1..Len(s) : IsDigit(s[i])

RECURSIVE DecVal(_)
DecVal(s) == IF s = <<>> THEN 0
             ELSE 10 * DecVal(SubSeq(s, 1, Len(s) - 1)) + DigitVal(s[Len(s)])

\* strconv.Atoi: an optional sign followed by at least one decimal digit.
Atoi(s) ==
    IF s # <<>> /\ AllDigits(s) THEN [ok |-> TRUE, val |-> DecVal(s)]
    ELSE IF Len(s) >= 2 /\ s[1] \in {"+", "-"} /\ AllDigits(Tail(s))
         THEN [ok |-> TRUE,
               val |-> IF s[1] = "-" THEN 0 - DecVal(Tail(s)) ELSE DecVal(Tail(s))]
         ELSE [ok |-> FALSE, val |-> 0]

HasPrefix(s, p) == Len(s) >= Len(p) /\ SubSeq(s, 1, Len(p)) = p

TrimPrefix(s, p) == IF HasPrefix(s, p) THEN SubSeq(s, Len(p) + 1, Len(s)) ELSE s

\* ------------------------------------------------------- duration parser
\* The index one past the run of digits that starts at position e (1-based).
RECURSIVE ScanDigits(_, _)
ScanDigits(s, e) == IF e <= Len(s) /\ IsDigit(s[e]) THEN ScanDigits(s, e + 1) ELSE e

UnitMinutes(unit, value) ==
    CASE unit = "d" -> value * 24 * 60
      [] unit = "h" -> value * 60
      [] unit = "m" -> value
      [] OTHER -> 0

\* The loop of parseDurationString from 1-based position i with the minutes
\* summed so far.  status is "ok", "error" (an error value is returned) or
\* "panic" (the unit is read past the end of the string).
RECURSIVE DurationLoop(_, _, _)
DurationLoop(s, i, total) ==
    IF i > Len(s) THEN [status |-> "ok", minutes |-> total]
    ELSE LET endIndex == ScanDigits(s, i + 1)
             value == Atoi(SubSeq(s, i, endIndex - 1))
         IN IF ~value.ok THEN [status |-> "error", minutes |-> 0]
            ELSE IF endIndex > Len(s) THEN [status |-> "panic", minutes |-> 0]
            ELSE IF s[endIndex] \notin {"d", "h", "m"}
                 THEN [status |-> "error", minutes |-> 0]
            ELSE DurationLoop(s, endIndex + 1,
                              total + UnitMinutes(s[endIndex], value.val))

\* The largest whole number of minutes a time.Duration (int64 nanoseconds)
\* holds: (2^63 - 1) \div (60 * 10^9).
MaxDurationMinutes == 153722867

\* Whether time.Duration(totalMinutes) * time.Minute leaves the int64 range,
\* so that the product wraps around.
DurationWraps(minutes) ==
    minutes > MaxDurationMinutes \/ minutes < 0 - MaxDurationMinutes

\* parseDurationString(durationStr).  wrapped tells that the duration
\* returned is the wrapped product and not minutes minutes.
parseDurationString(s) ==
    LET r == DurationLoop(s, 1, 0)
    IN [status |-> r.status, minutes |-> r.minutes,
        wrapped |-> r.status = "ok" /\ DurationWraps(r.minutes)]

\* time.Duration(totalMinutes) * time.Minute, in ticks.
DurationTicks(minutes) == minutes * TicksPerMin

\* intervalRegex ^(\d+d)?(\d+h)?(\d+m)?$ : an optional group is taken when
\* a non-empty run of digits is followed by its unit letter.
RegexGroup(s, i, unit) ==
    LET e == ScanDigits(s, i)
    IN IF e > i /\ e <= Len(s) /\ s[e] = unit THEN e + 1 ELSE i

intervalRegexNoEnd(s) ==
    RegexGroup(s, RegexGroup(s, RegexGroup(s, 1, "d"), "h"), "m") >= 1

intervalRegexMatch(s) ==
    RegexGroup(s, RegexGroup(s, RegexGroup(s, 1, "d"), "h"), "m") = Len(s) + 1

\* --------------------------------------------------------------- the clock
\* time.Now().Format(time.RFC3339): whole seconds, the sub-second part dropped.
FormatRFC3339(t) == t \div TicksPerSec

\* time.Parse(time.RFC3339, s) of a well-formed timestamp.
ParseRFC3339(sec) == sec * TicksPerSec

\* ------------------------------------------------------------ the ledger
\* Image references used by the callers (after registry-mirror translation).
Keys == {"a", "b"}

\* The value of an absent timestamp string ("").
NoTime == 0 - 1

Str7d == <<"7", "d">>
Str1d == <<"1", "d">>
Str1h == <<"1", "h">>
Str1m == <<"1", "m">>

\* ImageJSON: the document of image.json.
ImageJSON(pulling, pruning, lastPrune, images) ==
    [pulling_interval |-> pulling, pruning_interval |-> pruning,
     last_prune |-> lastPrune, images |-> images]

NoImages == [k \in {} |-> 0]

\* ImageJSON{}: the zero value returned next to an error.
ZeroJSON == ImageJSON(<<>>, <<>>, NoTime, NoImages)

\* The document written when image.json does not exist.
minimumJSON == ImageJSON(<<>>, Str7d, NoTime, NoImages)

\* The file image.json: absent, unparsable, or holding a document.
FileAbsent == [state |-> "absent", doc |-> ZeroJSON]
FileCorrupt == [state |-> "corrupt", doc |-> ZeroJSON]
FileOf(doc) == [state |-> "ok", doc |-> doc]

\* The function m without key k (delete(m, k)).
MapDelete(m, k) == [x \in DOMAIN m \ {k} |-> m[x]]

\* The function m with m[k] = v (m[k] = v on a Go map).
MapPut(m, k, v) == [x \in DOMAIN m \cup {k} |-> IF x = k THEN v ELSE m[x]]

\* readImageJSON: creates the file with minimumJSON when it is missing,
\* then reads and unmarshals it.  file is the file afterwards.
readImageJSON(f) ==
    CASE f.state = "absent" ->
            [doc |-> minimumJSON, err |-> FALSE, file |-> FileOf(minimumJSON)]
      [] f.state = "corrupt" ->
            [doc |-> ZeroJSON, err |-> TRUE, file |-> f]
      [] OTHER ->
            [doc |-> f.doc, err |-> FALSE, file |-> f]

\* json.MarshalIndent followed by os.WriteFile(imagePath, ...).
WriteFile(doc) == FileOf(doc)

\* imageTimestamp.Before(time.Now().Add(-duration)) at clock value t.
IntervalElapsedInclusive(stamp, d, t) ==
    ParseRFC3339(stamp) <= t - DurationTicks(d.minutes)

IntervalElapsed(stamp, d, t) ==
    ParseRFC3339(stamp) < t - DurationTicks(d.minutes)

\* CheckImagePullInterval at clock value t.  status is "ok", "error" or
\* "panic"; pull is the boolean returned (false next to an error).
CheckImagePullInterval(f, imageID, t) ==
    LET r == readImageJSON(f)
        d == parseDurationString(r.doc.pulling_interval)
    IN IF r.err THEN [pull |-> FALSE, status |-> "error", file |-> r.file]
       ELSE IF imageID \notin DOMAIN r.doc.images
            THEN [pull |-> TRUE, status |-> "ok", file |-> r.file]
       ELSE IF d.status # "ok"
            THEN [pull |-> FALSE, status |-> d.status, file |-> r.file]
       ELSE [pull |-> IntervalElapsed(r.doc.images[imageID], d, t),
             status |-> "ok", file |-> r.file]

PruneNotYetNever(doc, d, t) == FALSE

\* The early return of PruneOldImages: last_prune is set and less than the
\* pruning interval has passed since.
PruneNotYet(doc, d, t) ==
    /\ doc.last_prune # NoTime
    /\ t - ParseRFC3339(doc.last_prune) < DurationTicks(d.minutes)

PruneKeepAll(images, d, t) == images

\* The entries PruneOldImages keeps: those not before the pruning threshold.
PruneKeep(images, d, t) ==
    [k \in {x \in DOMAIN images :
               ~(ParseRFC3339(images[x]) < t - DurationTicks(d.minutes))} |-> images[k]]

\* PruneOldImages at clock value t.
PruneOldImages(f, t) ==
    LET r == readImageJSON(f)
        d == parseDurationString(r.doc.pruning_interval)
    IN IF r.err THEN [status |-> "error", file |-> r.file]
       ELSE IF d.status # "ok" THEN [status |-> d.status, file |-> r.file]
       ELSE IF PruneNotYet(r.doc, d, t) THEN [status |-> "ok", file |-> r.file]
       ELSE [status |-> "ok",
             file |-> WriteFile([r.doc EXCEPT !.images = PruneKeep(r.doc.images, d, t),
                                              !.last_prune = FormatRFC3339(t)])]

RecordInAlone(doc, imageID, timestamp) ==
    [doc EXCEPT !.images = [k \in {imageID} |-> timestamp]]

\* The document UpdateImagePullRecord writes from the document it read.
RecordIn(doc, imageID, timestamp) ==
    [doc EXCEPT !.images = MapPut(doc.images, imageID, timestamp)]

\* UpdateImagePullRecord(imageID, timestamp) run in one piece.
UpdateImagePullRecord(f, imageID, timestamp) ==
    LET r == readImageJSON(f)
    IN IF r.err THEN [err |-> TRUE, file |-> r.file]
       ELSE [err |-> FALSE, file |-> WriteFile(RecordIn(r.doc, imageID, timestamp))]

EvictRecordKeeps(f, name) == WriteFile(readImageJSON(f).doc)

\* The self-healing eviction of Fetch: the record read (the zero value on a
\* read error) is written back without the entry of name.
EvictRecord(f, name) ==
    LET r == readImageJSON(f)
    IN WriteFile([r.doc EXCEPT !.images = MapDelete(r.doc.images, name)])

\* updateImageJSONDuration: the file afterwards.
updateImageJSONDuration(f, intervalStr) ==
    LET r == readImageJSON(f)
    IN IF r.err THEN r.file
       ELSE WriteFile([r.doc EXCEPT !.pulling_interval = intervalStr])


\* ------------------------------------------------------------ pull policy
TxtAlways == <<"a", "l", "w", "a", "y", "s">>
TxtNever == <<"n", "e", "v", "e", "r">>
TxtIfNotPresent == <<"i", "f", "-", "n", "o", "t", "-", "p", "r", "e", "s", "e", "n", "t">>
TxtHourly == <<"h", "o", "u", "r", "l", "y">>
TxtDaily == <<"d", "a", "i", "l", "y">>
TxtWeekly == <<"w", "e", "e", "k", "l", "y">>
TxtIntervalEq == <<"i", "n", "t", "e", "r", "v", "a", "l", "=">>

\* nameMap: the literals ParsePullPolicy returns without looking further.
nameMap ==
    [t \in {TxtAlways, TxtNever, TxtIfNotPresent, <<>>} |->
        CASE t = TxtNever -> "PullNever"
          [] t = TxtIfNotPresent -> "PullIfNotPresent"
          [] OTHER -> "PullAlways"]

\* The aliases hourly, daily and weekly with the interval spec each stands for.
aliasMap ==
    [t \in {TxtHourly, TxtDaily, TxtWeekly} |->
        CASE t = TxtHourly -> [policy |-> "PullHourly", spec |-> Str1h]
          [] t = TxtDaily -> [policy |-> "PullDaily", spec |-> Str1d]
          [] OTHER -> [policy |-> "PullWeekly", spec |-> Str7d]]

\* ParsePullPolicy(policy) with the package variable interval holding iv:
\* the policy returned, whether an error is returned, the value of interval
\* afterwards, and the interval spec handed to updateImageJSONDuration
\* (update is FALSE when it is not called).
ParsePullPolicy(policy, iv) ==
    IF policy \in DOMAIN nameMap
    THEN [policy |-> nameMap[policy], err |-> FALSE, interval |-> iv,
          update |-> FALSE, spec |-> <<>>]
    ELSE IF policy \in DOMAIN aliasMap
    THEN [policy |-> aliasMap[policy].policy, err |-> FALSE, interval |-> iv,
          update |-> TRUE, spec |-> aliasMap[policy].spec]
    ELSE IF HasPrefix(policy, TxtIntervalEq)
    THEN IF intervalRegexMatch(TrimPrefix(policy, TxtIntervalEq))
         THEN [policy |-> "PullWithInterval", err |-> FALSE, interval |-> policy,
               update |-> TRUE, spec |-> TrimPrefix(policy, TxtIntervalEq)]
         ELSE [policy |-> "PullAlways", err |-> TRUE, interval |-> policy,
               update |-> FALSE, spec |-> <<>>]
    ELSE [policy |-> "PullAlways", err |-> TRUE, interval |-> iv,
          update |-> FALSE, spec |-> <<>>]

\* The text String() renders each alias policy as.
aliasString ==
    [p \in {"PullHourly", "PullDaily", "PullWeekly"} |->
        CASE p = "PullHourly" -> TxtHourly
          [] p = "PullDaily" -> TxtDaily
          [] OTHER -> TxtWeekly]

PolicyStringAmbient(p, iv) ==
    IF iv # <<>> THEN TxtIntervalEq \o iv
    ELSE CASE p = "PullAlways" -> TxtAlways
           [] p = "PullNever" -> TxtNever
           [] p = "PullIfNotPresent" -> TxtIfNotPresent
           [] p \in DOMAIN aliasString -> aliasString[p]
           [] OTHER -> <<>>

\* PullPolicy.String() with the package variable interval holding iv.
PolicyString(p, iv) ==
    CASE p = "PullAlways" -> TxtAlways
      [] p = "PullNever" -> TxtNever
      [] p = "PullIfNotPresent" -> TxtIfNotPresent
      [] p = "PullWithInterval" -> TxtIntervalEq \o iv
      [] p \in DOMAIN aliasString -> aliasString[p]
      [] OTHER -> <<>>

\* intervalPolicy(options)
intervalPolicy(policy) ==
    policy \in {"PullWithInterval", "PullHourly", "PullDaily", "PullWeekly"}

Policies == {"PullAlways", "PullNever", "PullIfNotPresent",
             "PullWithInterval", "PullHourly", "PullDaily", "PullWeekly"}

\* --------------------------------------------------------------- state
Procs == {1, 2}

Platforms == {"", "linux/arm64"}

VARIABLES
    now,        \* the clock, in ticks
    clockSteps, \* how many times the clock has advanced
    file,       \* ~/.pack/image.json
    daemon,     \* the references the daemon holds an image for
    interval,   \* the package variable interval of pull_policy.go
    pc,         \* pc[p]: where the Fetch call of p stands
    call,       \* call[p]: arguments, locals and outcome of the Fetch call of p
    lastEvict,  \* the reference whose entry the last eviction dropped, or ""
    ncalls,     \* the number of Fetch calls started
    nparses,    \* the number of ParsePullPolicy calls made
    overlap,    \* whether a Fetch call began while another was running
    input,      \* the string handed to the parser last called
    ret         \* what that parser returned

vars == <<now, clockSteps, file, daemon, interval, pc, call, lastEvict, ncalls, nparses,
          overlap, input, ret>>

\* The locals of a Fetch call before it took any step.
NewCall(name, daemonOpt, layout, policy, platform, f) ==
    [name |-> name, daemonOpt |-> daemonOpt, layout |-> layout,
     policy |-> policy, platform |-> platform,
     check |-> "none", pull |-> FALSE, prune |-> "none", evicted |-> FALSE,
     pulls |-> <<>>, pullErr |-> "none", opened |-> 0, closed |-> 0,
     first |-> "none", found |-> "none", recorded |-> NoTime, result |-> "none",
     translated |-> TRUE, afterEvict |-> FALSE, start |-> f, before |-> f,
     checkAt |-> 0, pruneAt |-> 0, retAt |-> 0,
     doc |-> ZeroJSON, stamp |-> NoTime, errs |-> <<>>, final |-> "none"]

NoCall == NewCall("a", FALSE, FALSE, "PullAlways", "", FileAbsent)

\* No parser has been called yet.
NoRet == [fn |-> "none"]

\* ---------------------------------------------------------- initial states
\* The clock starts on a whole second, late enough for every age below.
Epoch == 10 * TicksPerDay

EpochSec == FormatRFC3339(Epoch)

\* Ages (in seconds) of the timestamps an existing ledger holds.
InitImages ==
    {NoImages,
     [k \in {"a"} |-> EpochSec - 24 * 3600],
     [k \in {"a"} |-> EpochSec - 30 * 3600],
     [k \in Keys |-> IF k = "a" THEN EpochSec - 60 ELSE EpochSec - 8 * 24 * 3600],
     [k \in Keys |-> IF k = "a" THEN EpochSec - 8 * 24 * 3600 ELSE EpochSec - 60]}

InitFiles ==
    {FileAbsent, FileCorrupt} \cup
    {FileOf(ImageJSON(pulling, Str7d, lastPrune, images)) :
        pulling \in {Str1d},
        lastPrune \in {NoTime, EpochSec - 60, EpochSec - 7 * 24 * 3600},
        images \in InitImages}

Init ==
    /\ now = Epoch
    /\ clockSteps = 0
    /\ file \in InitFiles
    /\ daemon \in SUBSET {"a"}
    /\ interval = <<>>
    /\ pc = [p \in Procs |-> "idle"]
    /\ call = [p \in Procs |-> NoCall]
    /\ lastEvict = ""
    /\ ncalls = 0
    /\ nparses = 0
    /\ overlap = FALSE
    /\ input = <<>>
    /\ ret = NoRet

\* --------------------------------------------------------------- the clock
\* The clock advances between calls and while a pull is under way.
Advances == {1, 30 * TicksPerHour}

Elapse(d) ==
    /\ clockSteps < MaxClockSteps
    /\ now' = now + d
    /\ clockSteps' = clockSteps + 1
    /\ UNCHANGED <<file, daemon, interval, pc, call, lastEvict, ncalls, nparses, overlap, input, ret>>

Tick(d) ==
    /\ \A p \in Procs : pc[p] \in {"idle", "pull"}
    /\ Elapse(d)

\* ---------------------------------------------------------- ParsePullPolicy
PolicyTexts ==
    {TxtAlways, TxtNever, TxtIfNotPresent, <<>>, TxtHourly, TxtDaily, TxtWeekly,
     TxtIntervalEq \o Str1m, TxtIntervalEq \o Str7d, TxtIntervalEq \o <<"5", "x">>,
     <<"s", "o", "m", "e", "t", "i", "m", "e", "s">>}

\* What a ParsePullPolicy(text) call does to the package variable and to
\* image.json.
ParseEffect(text) ==
    LET r == ParsePullPolicy(text, interval)
    IN /\ interval' = r.interval
       /\ file' = IF r.update THEN updateImageJSONDuration(file, r.spec) ELSE file

Parse(text) ==
    /\ \A p \in Procs : pc[p] = "idle"
    /\ nparses < MaxParses
    /\ nparses' = nparses + 1
    /\ ParseEffect(text)
    /\ UNCHANGED <<now, clockSteps, daemon, pc, call, lastEvict, ncalls, overlap, input, ret>>

\* -------------------------------------------------------------------- Fetch
Goto(p, label, c) ==
    /\ pc' = [pc EXCEPT ![p] = label]
    /\ call' = [call EXCEPT ![p] = c]

\* Fetch returns: result is "image", "NotFound", "error" or "panic".
Return(p, c, result) ==
    Goto(p, "done", [c EXCEPT !.result = result, !.retAt = now])

FirstStepNeverPulls(layout, daemonOpt, policy) ==
    IF layout THEN "layout"
    ELSE IF ~daemonOpt THEN "remote"
    ELSE CASE policy \in {"PullNever", "PullIfNotPresent"} -> "lookupIfNotPresent"
           [] intervalPolicy(policy) -> "check"
           [] OTHER -> "pull"

FirstStepIfNotPresentPulls(layout, daemonOpt, policy) ==
    IF layout THEN "layout"
    ELSE IF ~daemonOpt THEN "remote"
    ELSE CASE policy = "PullNever" -> "lookupNever"
           [] intervalPolicy(policy) -> "check"
           [] OTHER -> "pull"

FirstStepAlwaysLooks(layout, daemonOpt, policy) ==
    IF layout THEN "layout"
    ELSE IF ~daemonOpt THEN "remote"
    ELSE CASE policy = "PullNever" -> "lookupNever"
           [] intervalPolicy(policy) -> "check"
           [] OTHER -> "lookupIfNotPresent"

FirstStepPolicyFirst(layout, daemonOpt, policy) ==
    IF layout THEN "layout"
    ELSE CASE policy = "PullNever" -> "lookupNever"
           [] policy = "PullIfNotPresent" -> "lookupIfNotPresent"
           [] intervalPolicy(policy) -> "check"
           [] OTHER -> IF ~daemonOpt THEN "remote" ELSE "pull"

\* The first statement Fetch reaches for its options.
FirstStep(layout, daemonOpt, policy) ==
    IF layout THEN "layout"
    ELSE IF ~daemonOpt THEN "remote"
    ELSE CASE policy = "PullNever" -> "lookupNever"
           [] policy = "PullIfNotPresent" -> "lookupIfNotPresent"
           [] intervalPolicy(policy) -> "check"
           [] OTHER -> "pull"

\* Fetch is called; pname.TranslateRegistry succeeds (name is its result)
\* or fails.
FetchBegin(p, name, daemonOpt, layout, policy, platform, translated) ==
    /\ pc[p] = "idle"
    /\ ncalls' = ncalls + 1
    /\ LET c == NewCall(name, daemonOpt, layout, policy, platform, file)
       IN IF translated
          THEN Goto(p, FirstStep(layout, daemonOpt, policy), c)
          ELSE Return(p, [c EXCEPT !.translated = FALSE], "error")
    /\ overlap' = (overlap \/ \E q \in Procs \ {p} : pc[q] \notin {"idle", "done"})
    /\ UNCHANGED <<now, clockSteps, file, daemon, interval, lastEvict, nparses, input, ret>>

\* One of the MaxCalls calls of Fetch a run makes.
FetchStart(p, name, daemonOpt, layout, policy, platform, translated) ==
    /\ ncalls < MaxCalls
    /\ FetchBegin(p, name, daemonOpt, layout, policy, platform, translated)

\* fetchLayoutImage: the image is saved to the layout path, or an error.
FetchLayout(p, ok) ==
    /\ pc[p] = "layout"
    /\ Return(p, call[p], IF ok THEN "image" ELSE "error")
    /\ UNCHANGED <<now, clockSteps, file, daemon, interval, lastEvict, ncalls, nparses, overlap, input, ret>>

\* fetchRemoteImage(name): "error" when remote.NewImage fails (reachable
\* tells), else "found" or "NotFound" as the registry holds the image or not.
fetchRemoteImage(reachable, present) ==
    IF ~reachable THEN "error"
    ELSE IF present THEN "found" ELSE "NotFound"

\* if !options.Daemon { return f.fetchRemoteImage(name) }
FetchRemote(p, reachable, present) ==
    /\ pc[p] = "remote"
    /\ LET f == fetchRemoteImage(reachable, present)
       IN Return(p, [call[p] EXCEPT !.first = f, !.found = f],
                 IF f = "found" THEN "image" ELSE f)
    /\ UNCHANGED <<now, clockSteps, file, daemon, interval, lastEvict, ncalls, nparses, overlap, input, ret>>

\* fetchDaemonImage(name): "found", "NotFound", or "error" when the daemon
\* cannot be asked (reachable tells which).
fetchDaemonImage(name, reachable) ==
    IF ~reachable THEN "error"
    ELSE IF name \in daemon THEN "found" ELSE "NotFound"

ResultOf(found) == IF found = "found" THEN "image" ELSE found

\* case PullNever
LookupNever(p, reachable) ==
    /\ pc[p] = "lookupNever"
    /\ LET f == fetchDaemonImage(call[p].name, reachable)
       IN Return(p, [call[p] EXCEPT !.first = f, !.found = f], ResultOf(f))
    /\ UNCHANGED <<now, clockSteps, file, daemon, interval, lastEvict, ncalls, nparses, overlap, input, ret>>

\* case PullIfNotPresent
LookupIfNotPresent(p, reachable) ==
    /\ pc[p] = "lookupIfNotPresent"
    /\ LET f == fetchDaemonImage(call[p].name, reachable)
           c == [call[p] EXCEPT !.first = f, !.found = f]
       IN IF f = "NotFound" THEN Goto(p, "pull", c) ELSE Return(p, c, ResultOf(f))
    /\ UNCHANGED <<now, clockSteps, file, daemon, interval, lastEvict, ncalls, nparses, overlap, input, ret>>

AfterCheckAlwaysPrunes(pull) == "prune"

\* if !pull { the local lookup is returned } else PruneOldImages and the pull
AfterCheck(pull) == IF pull THEN "prune" ELSE "lookupNotDue"

\* case PullWithInterval, PullDaily, PullHourly, PullWeekly: the check.
\* An error of the check is logged and leaves pull false.
Check(p) ==
    /\ pc[p] = "check"
    /\ LET r == CheckImagePullInterval(file, call[p].name, now)
           c == [call[p] EXCEPT !.check = r.status, !.pull = r.pull, !.checkAt = now,
                                !.afterEvict = (lastEvict = call[p].name)]
       IN /\ file' = r.file
          /\ IF r.status = "panic" THEN Return(p, c, "panic")
             ELSE Goto(p, AfterCheck(r.pull), c)
    /\ lastEvict' = IF lastEvict = call[p].name THEN "" ELSE lastEvict
    /\ UNCHANGED <<now, clockSteps, daemon, interval, ncalls, nparses, overlap, input, ret>>

\* if !pull: the daemon-local lookup whose result is returned.
LookupNotDue(p, reachable) ==
    /\ pc[p] = "lookupNotDue"
    /\ LET f == fetchDaemonImage(call[p].name, reachable)
           c == [call[p] EXCEPT !.first = f, !.found = f]
       IN IF f = "NotFound" THEN Goto(p, "evict", c) ELSE Return(p, c, ResultOf(f))
    /\ UNCHANGED <<now, clockSteps, file, daemon, interval, lastEvict, ncalls, nparses, overlap, input, ret>>

\* if errors.Is(err, ErrNotFound): the entry of name is dropped from the ledger.
Evict(p) ==
    /\ pc[p] = "evict"
    /\ file' = EvictRecord(file, call[p].name)
    /\ Return(p, [call[p] EXCEPT !.evicted = TRUE], "NotFound")
    /\ lastEvict' = call[p].name
    /\ UNCHANGED <<now, clockSteps, daemon, interval, ncalls, nparses, overlap, input, ret>>

\* The pull is due: PruneOldImages, whose error is only logged.
Prune(p) ==
    /\ pc[p] = "prune"
    /\ LET r == PruneOldImages(file, now)
           c == [call[p] EXCEPT !.prune = r.status, !.before = file, !.pruneAt = now]
       IN /\ file' = r.file
          /\ IF r.status = "panic" THEN Return(p, c, "panic") ELSE Goto(p, "pull", c)
    /\ UNCHANGED <<now, clockSteps, daemon, interval, lastEvict, ncalls, nparses, overlap, input, ret>>

\* What one pullImage call can do: the error it returns and whether the
\* progress stream was opened and closed.
PullOutcomes ==
    {[err |-> "nil", opened |-> 1, closed |-> 1],
     [err |-> "NotFound", opened |-> 0, closed |-> 0],
     [err |-> "Mismatch", opened |-> 0, closed |-> 0],
     [err |-> "Mismatch", opened |-> 1, closed |-> 0],
     [err |-> "Other", opened |-> 0, closed |-> 0],
     [err |-> "Other", opened |-> 1, closed |-> 0],
     [err |-> "Other", opened |-> 1, closed |-> 1]}

\* The locals after pullImage(ctx, name, platform) ended with outcome o.
Pulled(c, platform, o) ==
    [c EXCEPT !.pulls = Append(c.pulls, platform), !.pullErr = o.err,
              !.errs = Append(c.errs, o.err),
              !.opened = c.opened + o.opened, !.closed = c.closed + o.closed]

RetryPullAnyError(err) == err # "nil"

\* Whether Fetch tries pullImage again with no platform after error err.
RetryPull(err) == err = "Mismatch"

PullFatalButMismatch(err) == err \notin {"nil", "NotFound", "Mismatch"}

\* Whether Fetch gives up after the last pullImage ended with error err.
PullFatal(err) == err \notin {"nil", "NotFound"}

\* f.pullImage(ctx, name, options.Platform)
Pull(p, o) ==
    /\ pc[p] = "pull"
    /\ LET c == Pulled(call[p], call[p].platform, o)
       IN /\ daemon' = IF o.err = "nil" THEN daemon \cup {c.name} ELSE daemon
          /\ IF RetryPull(o.err) THEN Goto(p, "retry", c)
             ELSE IF PullFatal(o.err) THEN Return(p, c, "error")
             ELSE Goto(p, "lookup", c)
    /\ UNCHANGED <<now, clockSteps, file, interval, lastEvict, ncalls, nparses, overlap, input, ret>>

\* f.pullImage(ctx, name, "") after a platform mismatch
Retry(p, o) ==
    /\ pc[p] = "retry"
    /\ LET c == Pulled(call[p], "", o)
       IN /\ daemon' = IF o.err = "nil" THEN daemon \cup {c.name} ELSE daemon
          /\ IF PullFatal(o.err) THEN Return(p, c, "error") ELSE Goto(p, "lookup", c)
    /\ UNCHANGED <<now, clockSteps, file, interval, lastEvict, ncalls, nparses, overlap, input, ret>>

ShouldRecordAlways(policy) == TRUE

\* if intervalPolicy(options) { UpdateImagePullRecord(...) }
ShouldRecord(policy) == intervalPolicy(policy)

\* The daemon-local lookup after the pull.
Lookup(p, reachable) ==
    /\ pc[p] = "lookup"
    /\ LET f == fetchDaemonImage(call[p].name, reachable)
           c == [call[p] EXCEPT !.found = f, !.final = f]
       IN IF f # "found" THEN Return(p, c, ResultOf(f))
          ELSE IF ShouldRecord(c.policy) THEN Goto(p, "record", c)
          ELSE Return(p, c, "image")
    /\ UNCHANGED <<now, clockSteps, file, daemon, interval, lastEvict, ncalls, nparses, overlap, input, ret>>

\* if intervalPolicy(options): UpdateImagePullRecord(name, time.Now())
Record(p) ==
    /\ pc[p] = "record"
    /\ LET stamp == FormatRFC3339(now)
           r == UpdateImagePullRecord(file, call[p].name, stamp)
       IN /\ file' = r.file
          /\ lastEvict' = IF ~r.err /\ lastEvict = call[p].name THEN "" ELSE lastEvict
          /\ IF r.err THEN Return(p, call[p], "error")
             ELSE Return(p, [call[p] EXCEPT !.recorded = stamp], "image")
    /\ UNCHANGED <<now, clockSteps, daemon, interval, ncalls, nparses, overlap, input, ret>>

\* The caller has the result; the locals of the call are gone.
Finish(p) ==
    /\ pc[p] = "done"
    /\ Goto(p, "idle", NoCall)
    /\ UNCHANGED <<now, clockSteps, file, daemon, interval, lastEvict, ncalls, nparses, overlap, input, ret>>

\* The references Fetch is called with.
FetchKeys == {"a"}

\* The options Fetch is called with: every policy in daemon mode, in
\* registry mode and with a layout; the options a mode does not read are
\* varied for some policies only.
FetchOptions ==
    {[daemonOpt |-> TRUE, layout |-> FALSE, policy |-> policy,
      platform |-> "linux/arm64"] : policy \in Policies} \cup
    {[daemonOpt |-> TRUE, layout |-> FALSE, policy |-> policy, platform |-> ""] :
        policy \in {"PullAlways", "PullDaily"}} \cup
    {[daemonOpt |-> FALSE, layout |-> l, policy |-> policy, platform |-> ""] :
        l \in BOOLEAN, policy \in Policies} \cup
    {[daemonOpt |-> TRUE, layout |-> TRUE, policy |-> policy, platform |-> ""] :
        policy \in {"PullAlways", "PullDaily"}}

\* The options of the calls whose registry-mirror translation fails.
UntranslatedOptions ==
    {[daemonOpt |-> TRUE, layout |-> FALSE, policy |-> "PullAlways", platform |-> ""]}

FetchStep(p) ==
    \/ \E name \in FetchKeys, o \in FetchOptions :
          FetchStart(p, name, o.daemonOpt, o.layout, o.policy, o.platform, TRUE)
    \/ \E name \in FetchKeys, o \in UntranslatedOptions :
          FetchStart(p, name, o.daemonOpt, o.layout, o.policy, o.platform, FALSE)
    \/ \E ok \in BOOLEAN : FetchLayout(p, ok)
    \/ \E reachable \in BOOLEAN, present \in BOOLEAN : FetchRemote(p, reachable, present)
    \/ \E reachable \in BOOLEAN : LookupNever(p, reachable)
    \/ \E reachable \in BOOLEAN : LookupIfNotPresent(p, reachable)
    \/ Check(p)
    \/ \E reachable \in BOOLEAN : LookupNotDue(p, reachable)
    \/ Evict(p)
    \/ Prune(p)
    \/ \E o \in PullOutcomes : Pull(p, o)
    \/ \E o \in PullOutcomes : Retry(p, o)
    \/ \E reachable \in BOOLEAN : Lookup(p, reachable)
    \/ Record(p)
    \/ Finish(p)

\* One caller at a time.
Next ==
    \/ FetchStep(1)
    \/ \E text \in PolicyTexts : Parse(text)
    \/ \E d \in Advances : Tick(d)

Spec == Init /\ [][Next]_vars

\* ------------------------------------------------------ concurrent callers
\* Two callers run Fetch at the same time, each for its own reference, under
\* an interval-gated policy.  The ledger operations that read image.json,
\* change the record and write it back take two steps here, the read and
\* the write, so that steps of the other caller can fall in between.
RaceKey(p) == IF p = 1 THEN "a" ELSE "b"

RaceFiles ==
    {FileAbsent,
     FileOf(ImageJSON(Str1d, Str7d, NoTime,
                      [k \in Keys |-> IF k = "a" THEN EpochSec - 60
                                      ELSE EpochSec - 8 * 24 * 3600]))}

InitRace ==
    /\ now = Epoch
    /\ clockSteps = 0
    /\ file \in RaceFiles
    /\ daemon \in SUBSET {"a"}
    /\ interval = <<>>
    /\ pc = [p \in Procs |-> "idle"]
    /\ call = [p \in Procs |-> NoCall]
    /\ lastEvict = ""
    /\ ncalls = 0
    /\ nparses = 0
    /\ overlap = FALSE
    /\ input = <<>>
    /\ ret = NoRet

\* PruneOldImages up to its os.WriteFile: the record is read and, when the
\* prune is due, the pruned record is held ready to be written.
PruneRead(p) ==
    /\ pc[p] = "prune"
    /\ LET r == PruneOldImages(file, now)
           read == readImageJSON(file).file
           c == [call[p] EXCEPT !.prune = r.status, !.before = file, !.pruneAt = now]
       IN /\ file' = read
          /\ IF r.status = "panic" THEN Return(p, c, "panic")
             ELSE IF r.file = read THEN Goto(p, "pull", c)
             ELSE Goto(p, "pruneWrite", [c EXCEPT !.doc = r.file.doc])
    /\ UNCHANGED <<now, clockSteps, daemon, interval, lastEvict, ncalls, nparses,
                   overlap, input, ret>>

\* os.WriteFile(imagePath, updatedJSON) of PruneOldImages
PruneWrite(p) ==
    /\ pc[p] = "pruneWrite"
    /\ file' = WriteFile(call[p].doc)
    /\ Goto(p, "pull", call[p])
    /\ UNCHANGED <<now, clockSteps, daemon, interval, lastEvict, ncalls, nparses,
                   overlap, input, ret>>

\* UpdateImagePullRecord up to its WriteFile: time.Now() is formatted and
\* the record is read.
RecordRead(p) ==
    /\ pc[p] = "record"
    /\ LET r == readImageJSON(file)
       IN /\ file' = r.file
          /\ IF r.err THEN Return(p, call[p], "error")
             ELSE Goto(p, "recordWrite",
                       [call[p] EXCEPT !.doc = r.doc, !.stamp = FormatRFC3339(now)])
    /\ UNCHANGED <<now, clockSteps, daemon, interval, lastEvict, ncalls, nparses,
                   overlap, input, ret>>

\* WriteFile(updatedJSON) of UpdateImagePullRecord, and the return of Fetch
RecordWrite(p) ==
    /\ pc[p] = "recordWrite"
    /\ file' = WriteFile(RecordIn(call[p].doc, call[p].name, call[p].stamp))
    /\ lastEvict' = IF lastEvict = call[p].name THEN "" ELSE lastEvict
    /\ Return(p, [call[p] EXCEPT !.recorded = call[p].stamp], "image")
    /\ UNCHANGED <<now, clockSteps, daemon, interval, ncalls, nparses, overlap, input, ret>>

RaceStep(p) ==
    \/ FetchStart(p, RaceKey(p), TRUE, FALSE, "PullDaily", "", TRUE)
    \/ Check(p)
    \/ \E reachable \in BOOLEAN : LookupNotDue(p, reachable)
    \/ Evict(p)
    \/ PruneRead(p)
    \/ PruneWrite(p)
    \/ \E o \in PullOutcomes : Pull(p, o)
    \/ \E o \in PullOutcomes : Retry(p, o)
    \/ \E reachable \in BOOLEAN : Lookup(p, reachable)
    \/ RecordRead(p)
    \/ RecordWrite(p)
    \/ Finish(p)

NextRace ==
    \/ \E p \in Procs : RaceStep(p)
    \/ \E d \in Advances : Tick(d)

SpecRace == InitRace /\ [][NextRace]_vars

\* ------------------------------------------------- calls one after another
\* Two callers run interval-gated Fetch calls for the keys of Keys, never
\* two at a time, over more than a pruning interval; the pulling interval
\* stored (as by interval=9d) is longer than the pruning interval.  A caller
\* may keep the result of its call while the other goes on.
MaxGapCalls == 3

Str9d == <<"9", "d">>

GapAdvances == {1, 8 * TicksPerDay}

GapFiles ==
    {FileOf(ImageJSON(Str9d, Str7d, NoTime, images)) :
        images \in {NoImages, [k \in {"b"} |-> EpochSec - 60]}}

InitGap ==
    /\ now = Epoch
    /\ clockSteps = 0
    /\ file \in GapFiles
    /\ daemon \in {{}, Keys}
    /\ interval = <<>>
    /\ pc = [p \in Procs |-> "idle"]
    /\ call = [p \in Procs |-> NoCall]
    /\ lastEvict = ""
    /\ ncalls = 0
    /\ nparses = 0
    /\ overlap = FALSE
    /\ input = <<>>
    /\ ret = NoRet

\* Fetch is called while no other call is running.
GapStart(p, name) ==
    /\ \A q \in Procs \ {p} : pc[q] \in {"idle", "done"}
    /\ ncalls < MaxGapCalls
    /\ FetchBegin(p, name, TRUE, FALSE, "PullWithInterval", "", TRUE)

\* Time passes between calls, after a call returned, or during a pull.
GapTick(d) ==
    /\ \A p \in Procs : pc[p] \in {"idle", "pull", "done"}
    /\ Elapse(d)

GapStep(p) ==
    \/ \E name \in Keys : GapStart(p, name)
    \/ Check(p)
    \/ \E reachable \in BOOLEAN : LookupNotDue(p, reachable)
    \/ Evict(p)
    \/ Prune(p)
    \/ \E o \in PullOutcomes : Pull(p, o)
    \/ \E o \in PullOutcomes : Retry(p, o)
    \/ \E reachable \in BOOLEAN : Lookup(p, reachable)
    \/ Record(p)
    \/ Finish(p)

NextGap ==
    \/ \E p \in Procs : GapStep(p)
    \/ \E d \in GapAdvances : GapTick(d)

SpecGap == InitGap /\ [][NextGap]_vars

\* ------------------------------------------------ the duration parser alone
\* The strings parseDurationString is called with: every string of up to
\* MaxLen characters of DurationAlphabet, and some longer ones.
MaxLen == 3

DurationAlphabet == {"1", "2", "d", "h", "m", "x", "-"}

LongDurationStrings ==
    {<<"2", "d", "3", "h", "3", "0", "m">>,
     <<"1", "d", "1", "h", "1", "m">>,
     <<"1", "0", "d", "1", "2", "h">>,
     <<"1", "d", "1", "m">>,
     <<"1", "h", "2", "d">>,
     <<"1", "m", "1", "h">>,
     <<"1", "d", "1", "d">>,
     <<"2", "d", "3", "h", "5">>,
     <<"1", "5", "3", "7", "2", "2", "8", "6", "7", "m">>,
     <<"1", "5", "3", "7", "2", "2", "8", "6", "8", "m">>}

DurationStrings ==
    UNION {[1..k -> DurationAlphabet] : k \in 0..MaxLen} \cup LongDurationStrings

InitDuration ==
    /\ now = Epoch
    /\ clockSteps = 0
    /\ file = FileAbsent
    /\ daemon = {}
    /\ interval = <<>>
    /\ pc = [p \in Procs |-> "idle"]
    /\ call = [p \in Procs |-> NoCall]
    /\ lastEvict = ""
    /\ ncalls = 0
    /\ nparses = 0
    /\ overlap = FALSE
    /\ input \in DurationStrings
    /\ ret = NoRet

\* parseDurationString(input) is called and returns.
ParseDuration ==
    /\ ret = NoRet
    /\ ret' = [fn |-> "parseDurationString", val |-> parseDurationString(input)]
    /\ UNCHANGED <<now, clockSteps, file, daemon, interval, pc, call, lastEvict,
                   ncalls, nparses, overlap, input>>

NextDuration == ParseDuration

SpecDuration == InitDuration /\ [][NextDuration]_vars

\* --------------------------------------------------- the policy parser alone
\* The texts ParsePullPolicy is called with: the literals, interval=
\* followed by every string of up to MaxLen characters of PolicyAlphabet
\* and by some longer ones, and texts that are no policy.
MaxPolicyParses == 2

PolicyAlphabet == {"1", "d", "h", "m", "x"}

LongPolicySpecs ==
    {<<"1", "d", "1", "h", "1", "m">>,
     <<"1", "2", "d", "3", "h", "3", "0", "m">>,
     <<"1", "d", "1", "m">>,
     <<"1", "h", "1", "d">>,
     <<"1", "d", "1", "d">>,
     <<"1", "d", "1", "h", " ">>}

PolicySpecs ==
    UNION {[1..k -> PolicyAlphabet] : k \in 0..MaxLen} \cup LongPolicySpecs

OtherTexts ==
    {<<"s", "o", "m", "e", "t", "i", "m", "e", "s">>,
     <<"A", "l", "w", "a", "y", "s">>,
     <<"a", "l", "w", "a", "y", "s", " ">>,
     <<"i", "n", "t", "e", "r", "v", "a", "l">>,
     <<"i", "n", "t", "e", "r", "v", "a", "l", ":", "1", "d">>,
     <<"I", "n", "t", "e", "r", "v", "a", "l", "=", "1", "d">>,
     <<"1", "d">>,
     <<"d", "a", "i", "l", "y", "=", "1", "d">>,
     <<"m", "o", "n", "t", "h", "l", "y">>}

PolicyInputs ==
    DOMAIN nameMap \cup DOMAIN aliasMap \cup OtherTexts
    \cup {TxtIntervalEq \o spec : spec \in PolicySpecs}

PolicyFiles ==
    {FileAbsent, FileCorrupt,
     FileOf(ImageJSON(Str1d, Str7d, EpochSec - 60, [k \in {"a"} |-> EpochSec - 60]))}

InitPolicy ==
    /\ now = Epoch
    /\ clockSteps = 0
    /\ file \in PolicyFiles
    /\ daemon = {}
    /\ interval = <<>>
    /\ pc = [p \in Procs |-> "idle"]
    /\ call = [p \in Procs |-> NoCall]
    /\ lastEvict = ""
    /\ ncalls = 0
    /\ nparses = 0
    /\ overlap = FALSE
    /\ input = <<>>
    /\ ret = NoRet

\* ParsePullPolicy(text) is called and returns.
ParseCall(text) ==
    /\ nparses < MaxPolicyParses
    /\ nparses' = nparses + 1
    /\ ParseEffect(text)
    /\ input' = text
    /\ ret' = LET r == ParsePullPolicy(text, interval)
              IN [fn |-> "ParsePullPolicy", val |-> [policy |-> r.policy, err |-> r.err]]
    /\ UNCHANGED <<now, clockSteps, daemon, pc, call, lastEvict, ncalls, overlap>>

NextPolicy == \E text \in PolicyInputs : ParseCall(text)

SpecPolicy == InitPolicy /\ [][NextPolicy]_vars

\* ------------------------------------------------------------- properties
\* The interval grammar (\d+d)?(\d+h)?(\d+m)? read off the string: a segment
\* is empty or a non-empty run of digits followed by its unit letter.
Segment(x, unit) ==
    \/ x = <<>>
    \/ Len(x) >= 2 /\ x[Len(x)] = unit /\ AllDigits(SubSeq(x, 1, Len(x) - 1))

SegmentValue(x) == IF x = <<>> THEN 0 ELSE DecVal(SubSeq(x, 1, Len(x) - 1))

\* The ways to cut s into a days, an hours and a minutes segment.
GrammarCuts(s) ==
    {c \in (0..Len(s)) \X (0..Len(s)) :
        /\ c[1] <= c[2]
        /\ Segment(SubSeq(s, 1, c[1]), "d")
        /\ Segment(SubSeq(s, c[1] + 1, c[2]), "h")
        /\ Segment(SubSeq(s, c[2] + 1, Len(s)), "m")}

InGrammar(s) == GrammarCuts(s) # {}

\* n_d * 1440 + n_h * 60 + n_m of a string of the grammar.
GrammarMinutes(s) ==
    LET c == CHOOSE x \in GrammarCuts(s) : TRUE
    IN SegmentValue(SubSeq(s, 1, c[1])) * 1440
       + SegmentValue(SubSeq(s, c[1] + 1, c[2])) * 60
       + SegmentValue(SubSeq(s, c[2] + 1, Len(s)))

\* parseDurationString has returned for input.
DurationReturned == ret # NoRet /\ ret.fn = "parseDurationString"
\* A call that passed the mirror translation, targets the daemon and asks
\* for no layout: the calls the pull policy decides.
DaemonCall(c) == c.translated /\ c.daemonOpt /\ ~c.layout

\* The document a ledger operation reads from file f.
DocOf(f) == readImageJSON(f).doc

\* The pull interval of document doc, in ticks (doc.pulling_interval parses).
PullTicks(doc) == DurationTicks(parseDurationString(doc.pulling_interval).minutes)

\* The pruning interval of document doc, in ticks.
PruneTicks(doc) == DurationTicks(parseDurationString(doc.pruning_interval).minutes)

\* C1: a Fetch call whose policy is Always, Never or IfNotPresent leaves
\* image.json as it was when the call began, at every step and whatever the
\* call returns; a call during which the file changes has an interval-gated
\* policy.
C1_OnlyIntervalPoliciesWrite ==
    \A p \in Procs :
        pc[p] # "idle" =>
            /\ ~intervalPolicy(call[p].policy) => file = call[p].start
            /\ file # call[p].start => intervalPolicy(call[p].policy)

C1_Witness ==
    \E p \in Procs :
        /\ pc[p] = "done" /\ ncalls = 2
        /\ DaemonCall(call[p])
        /\ call[p].policy \in {"PullAlways", "PullIfNotPresent"}
        /\ call[p].pulls # <<>> /\ call[p].result = "image"
        /\ file.state = "ok" /\ call[p].name \in DOMAIN file.doc.images

\* The pull is not due: the interval check succeeded and answered false.
NotDue(c) == DaemonCall(c) /\ intervalPolicy(c.policy) /\ c.check = "ok" /\ ~c.pull

\* C2: under an interval-gated policy, when the check says the pull is not
\* due and the daemon holds the image, Fetch returns that image, having
\* issued no pull, not pruned and not changed image.json.
C2_NotDuePresentReturnsLocal ==
    \A p \in Procs :
        /\ (pc[p] # "idle" /\ NotDue(call[p])) =>
              /\ call[p].pulls = <<>>
              /\ call[p].prune = "none"
              /\ pc[p] \in {"lookupNotDue", "evict", "done"}
        /\ (pc[p] = "done" /\ NotDue(call[p]) /\ call[p].first = "found") =>
              /\ call[p].result = "image"
              /\ ~call[p].evicted
              /\ file = call[p].start

C2_Witness ==
    \E p \in Procs :
        /\ pc[p] = "done" /\ NotDue(call[p]) /\ call[p].first = "found"
        /\ call[p].result = "image"

\* The state right after a successful interval check of p: neither the
\* clock nor the file has moved since.
JustChecked(p) == pc[p] \in {"prune", "lookupNotDue"} /\ call[p].check = "ok"

C4_DailyPullsAfter30Hours ==
    \A p \in Procs :
        (/\ pc[p] = "done" /\ DaemonCall(call[p]) /\ call[p].policy = "PullDaily"
         /\ call[p].check # "none"
         /\ call[p].start.state = "ok"
         /\ call[p].name \in DOMAIN call[p].start.doc.images
         /\ call[p].checkAt - ParseRFC3339(call[p].start.doc.images[call[p].name])
                = 30 * TicksPerHour) =>
            /\ call[p].pulls # <<>>
            /\ call[p].result = "image" =>
                  /\ file.state = "ok"
                  /\ call[p].name \in DOMAIN file.doc.images
                  /\ file.doc.images[call[p].name] = FormatRFC3339(call[p].retAt)

\* The state right after PruneOldImages returned nil in the call of p; the
\* file has not moved since, and pruneAt is the clock value it read.
JustPruned(p) == pc[p] = "pull" /\ call[p].prune = "ok"

\* Whether the prune of p found last_prune empty or the pruning interval over.
PruneWasDue(p) ==
    LET b == DocOf(call[p].before)
    IN \/ b.last_prune = NoTime
       \/ call[p].pruneAt - ParseRFC3339(b.last_prune) >= PruneTicks(b)

\* C5: a prune that runs with last_prune empty or at least the pruning
\* interval old keeps exactly the entries whose timestamp is not older than
\* now - pruningInterval, each unchanged, sets last_prune to now (as a
\* timestamp, to the second) and leaves both interval fields alone.
C5_PruneKeepsExactlyTheRecent ==
    \A p \in Procs :
        (JustPruned(p) /\ PruneWasDue(p)) =>
            LET b == DocOf(call[p].before)
                kept == {k \in DOMAIN b.images :
                            ParseRFC3339(b.images[k]) >= call[p].pruneAt - PruneTicks(b)}
            IN /\ file.state = "ok"
               /\ DOMAIN file.doc.images = kept
               /\ \A k \in kept : file.doc.images[k] = b.images[k]
               /\ file.doc.last_prune = FormatRFC3339(call[p].pruneAt)
               /\ file.doc.pulling_interval = b.pulling_interval
               /\ file.doc.pruning_interval = b.pruning_interval

C5_Witness ==
    \E p \in Procs :
        /\ JustPruned(p) /\ PruneWasDue(p)
        /\ DOMAIN file.doc.images # {}
        /\ DOMAIN file.doc.images # DOMAIN DocOf(call[p].before).images

\* C6: a prune that finds last_prune set and less than the pruning interval
\* old leaves image.json exactly as it was.
C6_PruneWithinIntervalIsNoOp ==
    \A p \in Procs :
        (JustPruned(p) /\ ~PruneWasDue(p)) => file = call[p].before

\* The prune skipped is the second of the run: last_prune was written by an
\* earlier prune of this run, and an entry is in the file.
C6_Witness ==
    \E p \in Procs :
        /\ JustPruned(p) /\ ~PruneWasDue(p)
        /\ ncalls = 2
        /\ call[p].before.doc.last_prune >= EpochSec
        /\ file = call[p].before

\* C7: under an interval-gated policy, when the pull is not due and the
\* daemon does not hold the image, Fetch returns NotFound without a pull and
\* image.json is as before except that the entry of the key is gone; the
\* next interval check of that key answers that the pull is due.
C7_NotDueAbsentEvicts ==
    \A p \in Procs :
        /\ (pc[p] = "done" /\ NotDue(call[p]) /\ call[p].first = "NotFound") =>
              /\ call[p].result = "NotFound"
              /\ call[p].pulls = <<>>
              /\ call[p].prune = "none"
              /\ call[p].start.state = "ok"
              /\ file = FileOf([call[p].start.doc EXCEPT
                                  !.images = MapDelete(call[p].start.doc.images,
                                                       call[p].name)])
              /\ call[p].name \notin DOMAIN file.doc.images
        /\ call[p].afterEvict => (call[p].check = "ok" /\ call[p].pull)

C7_Witness ==
    \E p \in Procs :
        /\ call[p].afterEvict /\ call[p].pull
        /\ "b" \in DOMAIN file.doc.images

\* C8: under policy Never, Fetch issues no pull; it returns the image when
\* the daemon holds it and NotFound when it does not, whatever the ledger.
C8_NeverNeverPulls ==
    \A p \in Procs :
        (DaemonCall(call[p]) /\ call[p].policy = "PullNever") =>
            /\ call[p].pulls = <<>>
            /\ pc[p] \in {"lookupNever", "done"}
            /\ (pc[p] = "done" /\ call[p].first # "error") =>
                  call[p].result = IF call[p].name \in daemon THEN "image" ELSE "NotFound"

C8_Witness ==
    \E p \in Procs :
        /\ pc[p] = "done" /\ DaemonCall(call[p]) /\ call[p].policy = "PullNever"
        /\ call[p].result = "NotFound"
        /\ file.state = "ok" /\ call[p].name \in DOMAIN file.doc.images

\* C9: under policy IfNotPresent, when the daemon holds the image Fetch
\* returns it without a pull and without touching image.json; a pull is
\* issued only after the local lookup answered NotFound.
C9_IfNotPresentPullsOnlyWhenAbsent ==
    \A p \in Procs :
        (DaemonCall(call[p]) /\ call[p].policy = "PullIfNotPresent") =>
            /\ (call[p].pulls # <<>> \/ pc[p] \in {"pull", "retry"}) =>
                  call[p].first = "NotFound"
            /\ (pc[p] = "done" /\ call[p].first = "found") =>
                  /\ call[p].result = "image"
                  /\ call[p].pulls = <<>>
                  /\ file = call[p].start

C9_Witness ==
    \E p \in Procs :
        /\ pc[p] = "done" /\ DaemonCall(call[p])
        /\ call[p].policy = "PullIfNotPresent"
        /\ call[p].first = "found" /\ call[p].result = "image"
        /\ file.state = "ok" /\ call[p].name \in DOMAIN file.doc.images

\* C10: under policy Always, in daemon mode with no layout, every Fetch that
\* returns has called pullImage, whatever the ledger holds and whether or
\* not the daemon already held the image.
C10_AlwaysPulls ==
    \A p \in Procs :
        (DaemonCall(call[p]) /\ call[p].policy = "PullAlways") =>
            /\ pc[p] \in {"pull", "retry", "lookup", "done"}
            /\ pc[p] # "pull" => call[p].pulls # <<>>
            /\ call[p].pulls # <<>> => call[p].pulls[1] = call[p].platform

\* The pull was issued although the ledger holds a fresh entry for the key
\* and the daemon already held the image (the pull found nothing new).
C10_Witness ==
    \E p \in Procs :
        /\ pc[p] = "done" /\ DaemonCall(call[p]) /\ call[p].policy = "PullAlways"
        /\ call[p].pulls # <<>>
        /\ call[p].pullErr = "NotFound" /\ call[p].result = "image"
        /\ file.state = "ok" /\ call[p].name \in DOMAIN file.doc.images
        /\ call[p].checkAt = 0

\* C11: a Fetch calls pullImage at most twice; the second call is made only
\* after the first failed with the platform-mismatch error, it asks for no
\* platform, and whatever it returns no third call follows.
C11_AtMostOneRetry ==
    \A p \in Procs :
        pc[p] # "idle" =>
            /\ Len(call[p].pulls) <= 2
            /\ Len(call[p].errs) = Len(call[p].pulls)
            /\ pc[p] = "pull" => call[p].pulls = <<>>
            /\ pc[p] = "retry" => Len(call[p].pulls) = 1
            /\ (Len(call[p].pulls) = 1 /\ call[p].errs[1] # "Mismatch") => pc[p] # "retry"
            /\ Len(call[p].pulls) = 2 =>
                  /\ call[p].errs[1] = "Mismatch"
                  /\ call[p].pulls[1] = call[p].platform
                  /\ call[p].pulls[2] = ""
                  /\ pc[p] \in {"lookup", "record", "done"}
                  /\ call[p].errs[2] \notin {"nil", "NotFound"} =>
                        (pc[p] = "done" /\ call[p].result = "error")

\* The retry failed with another platform mismatch and Fetch gave up.
C11_Witness ==
    \E p \in Procs :
        /\ pc[p] = "done" /\ call[p].pulls = <<"linux/arm64", "">>
        /\ call[p].errs = <<"Mismatch", "Mismatch">>
        /\ call[p].result = "error"

\* A ledger step of the call failed: the interval check or the prune
\* returned an error.
LedgerStepFailed(c) == c.check = "error" \/ c.prune = "error"

\* C12 as claimed: a failed interval check, prune or record neither keeps
\* Fetch from pulling nor makes it return an error: after a failed check the
\* call goes on to the pull, and a call whose pull and final lookup
\* succeeded returns the image.
C12_LedgerFailureNeverBlocks ==
    \A p \in Procs :
        (pc[p] # "idle" /\ DaemonCall(call[p]) /\ intervalPolicy(call[p].policy)) =>
            /\ LedgerStepFailed(call[p]) =>
                  /\ pc[p] \notin {"lookupNotDue", "evict"}
                  /\ pc[p] = "done" => call[p].pulls # <<>>
            /\ (pc[p] = "done" /\ call[p].pullErr = "nil" /\ call[p].final = "found") =>
                  call[p].result = "image"

\* A call that takes neither the daemon branch nor the policy switch: the
\* layout option is set or the daemon is not targeted.
BypassCall(c) == c.translated /\ (c.layout \/ ~c.daemonOpt)

\* C13: with the layout option set, or the daemon not targeted, Fetch calls
\* no pullImage, runs no interval check and no prune and leaves image.json
\* as it was, under every policy; in the registry case it returns NotFound
\* when the registry does not hold the image.
C13_LayoutAndRegistryBypassPolicy ==
    \A p \in Procs :
        (pc[p] # "idle" /\ BypassCall(call[p])) =>
            /\ call[p].pulls = <<>>
            /\ call[p].check = "none"
            /\ call[p].prune = "none"
            /\ ~call[p].evicted
            /\ call[p].recorded = NoTime
            /\ file = call[p].start
            /\ pc[p] = (IF call[p].layout THEN "layout" ELSE "remote") \/ pc[p] = "done"
            /\ (pc[p] = "done" /\ ~call[p].layout /\ call[p].found = "NotFound") =>
                  call[p].result = "NotFound"

\* The registry case under policy Daily with a 30-hour-old entry of the key
\* in the ledger, which the daemon branch would have pulled.
C13_Witness ==
    \E p \in Procs :
        /\ pc[p] = "done" /\ BypassCall(call[p]) /\ ~call[p].layout
        /\ call[p].policy = "PullDaily"
        /\ call[p].found = "NotFound" /\ call[p].result = "NotFound"
        /\ file.state = "ok" /\ call[p].name \in DOMAIN file.doc.images
        /\ file.doc.images[call[p].name] = EpochSec - 30 * 3600

\* C14 as claimed: a Fetch that stored a timestamp for its key had its
\* ImagePull request complete without error.
C14_RecordedOnlyAfterSuccessfulPull ==
    \A p \in Procs :
        (pc[p] = "done" /\ call[p].recorded # NoTime) => call[p].pullErr = "nil"

\* C20: in daemon mode, after a last pullImage that failed with an error
\* other than NotFound, Fetch returns an error without the lookup and
\* without recording; after one that failed with NotFound it makes the
\* daemon-local lookup and returns an error when that fails; a Fetch that
\* returns the image has found it in its last daemon-local lookup.
C20_PullErrorsAndFinalLookup ==
    \A p \in Procs :
        (pc[p] # "idle" /\ DaemonCall(call[p])) =>
            /\ pc[p] \in {"lookup", "record"} => call[p].pullErr \in {"nil", "NotFound"}
            /\ (pc[p] = "done" /\ call[p].pulls # <<>>
                   /\ call[p].pullErr \notin {"nil", "NotFound"}) =>
                  /\ call[p].result = "error"
                  /\ call[p].final = "none"
                  /\ call[p].recorded = NoTime
            /\ (pc[p] = "done" /\ call[p].pullErr = "NotFound") =>
                  /\ call[p].final # "none"
                  /\ call[p].final # "found" =>
                        (call[p].result = call[p].final /\ call[p].recorded = NoTime)
            /\ (pc[p] = "done" /\ call[p].result = "image") => call[p].found = "found"

\* The pull answered NotFound and the daemon does not hold the image either.
C20_Witness ==
    \E p \in Procs :
        /\ pc[p] = "done" /\ DaemonCall(call[p])
        /\ call[p].pullErr = "NotFound" /\ call[p].final = "NotFound"
        /\ call[p].result = "NotFound"
        /\ intervalPolicy(call[p].policy)

\* C17 as claimed: for every string of the grammar the duration parser
\* returns a duration of n_d * 1440 + n_h * 60 + n_m minutes, zero for the
\* empty string.
C17_GrammarStringsParseToTheirSum ==
    (DurationReturned /\ InGrammar(input)) =>
        /\ ret.val.status = "ok"
        /\ ret.val.minutes = GrammarMinutes(input)
        /\ ~ret.val.wrapped

\* C17 below the end of the time.Duration range: the sum is returned for
\* every string of the grammar whose sum is at most MaxDurationMinutes.
C17_SumWithinDurationRange ==
    (DurationReturned /\ InGrammar(input)
       /\ GrammarMinutes(input) <= MaxDurationMinutes) =>
        /\ ret.val.status = "ok"
        /\ ret.val.minutes = GrammarMinutes(input)
        /\ ~ret.val.wrapped

\* C18 as claimed: for every string outside the grammar the duration parser
\* returns an error value: it neither crashes nor returns a duration.
C18_OutsideGrammarIsAnError ==
    (DurationReturned /\ ~InGrammar(input)) => ret.val.status = "error"

\* ParsePullPolicy has returned for input.
PolicyReturned == ret # NoRet /\ ret.fn = "ParsePullPolicy"

\* The policy text grammar: always | never | if-not-present | "" |
\* hourly | daily | weekly | interval=<spec> with <spec> of the interval
\* grammar.
ValidPolicyText(t) ==
    \/ t \in {TxtAlways, TxtNever, TxtIfNotPresent, <<>>, TxtHourly, TxtDaily, TxtWeekly}
    \/ /\ Len(t) >= Len(TxtIntervalEq)
       /\ SubSeq(t, 1, Len(TxtIntervalEq)) = TxtIntervalEq
       /\ InGrammar(SubSeq(t, Len(TxtIntervalEq) + 1, Len(t)))

RoundTripTexts == {TxtAlways, TxtNever, TxtIfNotPresent, TxtHourly, TxtDaily, TxtWeekly}

RoundTripPolicies ==
    {"PullAlways", "PullNever", "PullIfNotPresent", "PullHourly", "PullDaily", "PullWeekly"}

BothRecorded ==
    /\ \A p \in Procs :
          pc[p] = "done" /\ call[p].result = "image" /\ call[p].recorded # NoTime
    /\ call[1].name # call[2].name

\* image.json holds the timestamp the call of p recorded for its key.
Holds(p) ==
    /\ file.state = "ok"
    /\ call[p].name \in DOMAIN file.doc.images
    /\ file.doc.images[call[p].name] = call[p].recorded

\* C19: after two Fetch calls on different keys that both returned the
\* image under an interval-gated policy, image.json holds the timestamp of
\* at least one of them, and of both when neither call began while the
\* other was running; with overlapping calls the timestamp of one key can
\* be missing (the state of C19_Witness).
C19_OnlyOverlappingCallsLoseUpdates ==
    BothRecorded =>
        /\ \E p \in Procs : Holds(p)
        /\ ~overlap => \A p \in Procs : Holds(p)

\* The lost update: both calls returned the image and recorded, and the key
\* of one of them has no entry in image.json.
C19_Witness ==
    /\ BothRecorded
    /\ overlap
    /\ \E p \in Procs : call[p].name \notin DOMAIN file.doc.images

\* Two calls, one after the other, both recorded.
C19_SequentialWitness == BothRecorded /\ ~overlap

\* C21 as claimed: when Fetch has returned, every progress stream its
\* ImagePull requests opened has been closed.
C21_StreamsClosedOnReturn ==
    \A p \in Procs :
        pc[p] = "done" => call[p].closed = call[p].opened

\* The interval spec an interval-style policy text stands for.
SpecOfText(t) ==
    IF t \in DOMAIN aliasMap THEN aliasMap[t].spec
    ELSE SubSeq(t, Len(TxtIntervalEq) + 1, Len(t))

\* C22 as claimed: a ParsePullPolicy call that returns an interval-style
\* policy without error leaves image.json holding the record it held before
\* (the minimal record when the file was missing) with pulling_interval set
\* to the interval spec of the text, and a call that returns an error leaves
\* image.json as it was.
C22_ParseStoresThePullingInterval ==
    [][(ret' # NoRet /\ ret'.fn = "ParsePullPolicy" /\ nparses' = nparses + 1) =>
          /\ (~ret'.val.err /\ intervalPolicy(ret'.val.policy)) =>
                /\ file'.state = "ok"
                /\ file'.doc = [DocOf(file) EXCEPT !.pulling_interval = SpecOfText(input')]
          /\ ret'.val.err => file' = file]_vars

\* The call of q pulled, found the image and recorded the pull of its key,
\* and the call of p, made later for the same key, pulled again; the image
\* has been in the daemon since.  retAt is the time of the pull of a call
\* that pulled: the clock does not move between the pull and the return.
PulledAgain(q, p) ==
    /\ p # q
    /\ pc[q] = "done" /\ pc[p] = "done"
    /\ call[q].name = call[p].name
    /\ intervalPolicy(call[q].policy) /\ intervalPolicy(call[p].policy)
    /\ call[q].recorded # NoTime
    /\ call[q].retAt < call[p].checkAt
    /\ call[p].pulls # <<>>
    /\ call[p].name \in daemon

\* C23 as claimed: in a run of interval-gated Fetch calls made one after
\* another, a call that pulls a key whose pull an earlier call recorded does
\* so at least the pulling interval after that earlier pull.
C23_PullsOfAKeyAreAnIntervalApart ==
    \A p \in Procs, q \in Procs :
        PulledAgain(q, p) =>
            call[p].retAt - call[q].retAt >= PullTicks(DocOf(file))
====
